---- MODULE Spec2Model ----
(***************************************************************************)
(* Model of the Leaflet map component (src/unnamed/part_001, the later     *)
(* revision of src/src/components/Leaflet.jsx): the coordinate parser      *)
(* parseCoordinates / parseDMS and the draw tools set up by initDrawTools; *)
(* of switchMapMode of src/src/App.vue; and of the mount sequence, the     *)
(* callbacks and the exposed operations of src/src/components/Cesium.jsx.  *)
(*                                                                         *)
(* Text is a sequence of characters, each character a one-symbol string;   *)
(* the characters that are awkward inside a TLA+ string have names:        *)
(* "deg" is the degree sign, "dq" the double quote.  Numbers that the code *)
(* holds as floats are exact rationals [n, d] in lowest terms, so float    *)
(* rounding is left out and equality means equality of the real values.    *)
(***************************************************************************)
EXTENDS Integers, Sequences, FiniteSets, TLC

VARIABLES
    \* ---- search box / coordinate parser
    phase,          \* "idle" before the query is parsed, "parsed" after
    query,          \* the structured input the text was written from
    text,           \* the text handed to parseCoordinates
    coords,         \* what parseCoordinates returned
    \* ---- draw tools
    enableDraw,     \* props.enableDraw
    enableMeasure,  \* props.enableMeasure
    mounted,        \* onMounted has run initMap
    drawnItems,     \* drawnItems.value: <<>> is null, <<S>> the FeatureGroup of layers S
    mapLayers,      \* the drawn layers that are on the map (map.hasLayer)
    layerType,      \* event.layerType of each layer, "" for a layer not yet made
    latlngs,        \* the geometry of each layer
    popup,          \* layer._popup of each layer: Null or the bound measurement
    listening,      \* the layer has event listeners (those bindPopup registers)
    mapPopup,       \* the layer whose popup is open on the map, 0 for none
    draft,          \* the shape being drawn with a draw tool, or NoDraft
    nextId,         \* the id the next layer gets
    lastEvent,      \* the event handled last, and the steps its handling took
    deleted,        \* the layers taken out since the delete tool was switched on
    removed,        \* the layers whose removal has been handled
    \* ---- searchFn, one record per call of it
    calls,          \* each call: where it stands, its text, its coords, the answer, its outcome
    issued,         \* number of calls of searchFn made so far
    requests,       \* the requests sent to the geocoding service, in order
    results,        \* the call whose return value the control was handed last, and the value
    \* ---- the measurement functions, called on one layer
    shape,          \* the layer handed to calculateDistance or calculateArea
    measured,       \* what the function returned
    \* ---- App.vue: the switch between the two maps
    mapMode,        \* mapMode.value: "2D" or "3D"
    leafletVisible, \* leafletVisible.value
    cesiumVisible,  \* cesiumVisible.value
    isTransitioning,\* isTransitioning.value
    resetTimers,    \* number of pending timers that reset isTransitioning
    switchCalls,    \* number of calls of switchMapMode made so far
    lastSwitch,     \* the call or timer expiration handled last
    \* ---- the Cesium component
    enable3DTiles,  \* props.enable3DTiles
    viewer,         \* viewer.value: Null or the viewer
    destroyed,      \* viewer.destroy() has been called
    stage,          \* where the mount sequence stands
    isLoading,      \* isLoading.value
    tilesLoaded,    \* the counter of checkLoadingComplete
    reported,       \* the tilesets that have reported a loaded tile
    movementTimeout,\* the 250 ms timer of the camera listener is pending
    screenSpaceError, \* scene.globe.maximumScreenSpaceError
    entities,       \* number of pipelines added to viewer.entities
    sceneMode,      \* the mode the scene was morphed to
    skyBox,         \* the sky box of the scene
    lastOp          \* the callback or exposed operation run last, and what it did

searchVars == <<phase, query, text, coords>>
geoVars == <<calls, issued, requests, results>>
measureVars == <<shape, measured>>
drawVars == <<enableDraw, enableMeasure, mounted, drawnItems, mapLayers, layerType,
              latlngs, popup, listening, mapPopup, draft, nextId, lastEvent,
              deleted, removed>>
appVars == <<mapMode, leafletVisible, cesiumVisible, isTransitioning, resetTimers,
             switchCalls, lastSwitch>>
cesiumVars == <<enable3DTiles, viewer, destroyed, stage, isLoading, tilesLoaded, reported,
                movementTimeout, screenSpaceError, entities, sceneMode, skyBox, lastOp>>
vars == <<searchVars, drawVars, geoVars, measureVars, appVars, cesiumVars>>

-----------------------------------------------------------------------------
(* Bounds of the model. *)

\* longest run of blanks written at any place of an input
MaxWs == 1

\* number of shapes drawn in one run
MaxShapes == 2

-----------------------------------------------------------------------------
(* Characters. *)

Digit == {"0", "1", "2", "3", "4", "5", "6", "7", "8", "9"}
Space == {" "}
DigitChars == <<"0", "1", "2", "3", "4", "5", "6", "7", "8", "9">>

DigitValue(c) == CHOOSE v \in 0..9 : DigitChars[v + 1] = c

\* String.prototype.toUpperCase on one hemisphere letter
ToUpperCase(c) ==
    CASE c = "n" -> "N"
      [] c = "s" -> "S"
      [] c = "e" -> "E"
      [] c = "w" -> "W"
      [] OTHER -> c

\* the null of JavaScript, and the undefined of a group that took no part
Null == [null |-> TRUE]

-----------------------------------------------------------------------------
(* Exact rationals. *)

RECURSIVE Gcd(_, _)
Gcd(a, b) == IF b = 0 THEN a ELSE Gcd(b, a % b)

Abs(x) == IF x < 0 THEN -x ELSE x

Rat(n, d) == LET g == Gcd(Abs(n), d) IN [n |-> n \div g, d |-> d \div g]

RECURSIVE Pow10(_)
Pow10(k) == IF k = 0 THEN 1 ELSE 10 * Pow10(k - 1)

-----------------------------------------------------------------------------
(* Regular expressions, with the backtracking order of JavaScript.         *)
(* A pattern is a sequence of items: a character class with a quantifier   *)
(* ("1", "?", "*", "+", all greedy) or a capturing group with quantifier   *)
(* "1" or "?".  A configuration is a position in the text and the captures *)
(* made so far; matching maps a configuration to the SEQUENCE of           *)
(* configurations the backtracking engine would try, in its order.         *)

Cls(q, C) == [kind |-> "cls", q |-> q, cls |-> C, grp |-> 0, body |-> <<>>]
Grp(q, g, body) == [kind |-> "grp", q |-> q, cls |-> {}, grp |-> g, body |-> body]

\* number of consecutive characters of class C in s from position p on
RECURSIVE ClassRun(_, _, _)
ClassRun(s, p, C) ==
    IF p <= Len(s) /\ s[p] \in C THEN 1 + ClassRun(s, p + 1, C) ELSE 0

\* positions after a quantified class, longest first (greedy)
ClassEnds(s, p, q, C) ==
    LET r  == ClassRun(s, p, C)
        hi == IF q \in {"1", "?"} THEN (IF r >= 1 THEN 1 ELSE 0) ELSE r
        lo == IF q \in {"1", "+"} THEN 1 ELSE 0
    IN  IF hi < lo THEN <<>> ELSE [k \in 1..(hi - lo + 1) |-> p + hi - (k - 1)]

RECURSIVE MatchSeq(_, _, _)
RECURSIVE MatchItem(_, _, _)
RECURSIVE MatchAll(_, _, _)

\* the configurations after one item, in backtracking order
MatchItem(s, item, conf) ==
    IF item.kind = "cls"
    THEN LET ends == ClassEnds(s, conf.pos, item.q, item.cls)
         IN  [k \in 1..Len(ends) |-> [pos |-> ends[k], caps |-> conf.caps]]
    ELSE LET inner == MatchSeq(s, item.body, conf)
             taken == [k \in 1..Len(inner) |->
                         [pos  |-> inner[k].pos,
                          caps |-> [inner[k].caps EXCEPT ![item.grp] =
                                       SubSeq(s, conf.pos, inner[k].pos - 1)]]]
         IN  IF item.q = "?" THEN taken \o <<conf>> ELSE taken

\* the rest of the pattern from each of a sequence of configurations
MatchAll(s, items, confs) ==
    IF confs = <<>> THEN <<>>
    ELSE MatchSeq(s, items, Head(confs)) \o MatchAll(s, items, Tail(confs))

MatchSeq(s, items, conf) ==
    IF items = <<>> THEN <<conf>>
    ELSE MatchAll(s, Tail(items), MatchItem(s, Head(items), conf))

NoCaps(n) == [g \in 1..n |-> <<>>]

\* MatchAnchored without the $ anchor: the first configuration, wherever it ends
MatchAnchoredNoEnd(s, pattern) ==
    LET all == MatchSeq(s, pattern.items, [pos |-> 1, caps |-> NoCaps(pattern.groups)])
    IN  IF all = <<>> THEN Null ELSE Head(all).caps

\* String.prototype.match with a pattern anchored by ^ and $: the captures
\* of the first configuration that ends at the end of the text, or Null
MatchAnchored(s, pattern) ==
    LET all  == MatchSeq(s, pattern.items, [pos |-> 1, caps |-> NoCaps(pattern.groups)])
        full == SelectSeq(all, LAMBDA c : c.pos = Len(s) + 1)
    IN  IF full = <<>> THEN Null ELSE Head(full).caps

\* String.prototype.match with an unanchored pattern: the leftmost start
\* that matches, and there the first configuration
RECURSIVE MatchFrom(_, _, _)
MatchFrom(s, pattern, start) ==
    IF start > Len(s) + 1 THEN Null
    ELSE LET all == MatchSeq(s, pattern.items,
                             [pos |-> start, caps |-> NoCaps(pattern.groups)])
         IN  IF all = <<>> THEN MatchFrom(s, pattern, start + 1) ELSE Head(all).caps

MatchUnanchored(s, pattern) == MatchFrom(s, pattern, 1)

-----------------------------------------------------------------------------
(* parseCoordinates and parseDMS. *)

\* -?\d+\.?\d*
DecimalNumberItems ==
    <<Cls("?", {"-"}), Cls("+", Digit), Cls("?", {"."}), Cls("*", Digit)>>

\* /^(-?\d+\.?\d*),\s*(-?\d+\.?\d*)$/
DecimalPattern ==
    [items  |-> <<Grp("1", 1, DecimalNumberItems),
                  Cls("1", {","}), Cls("*", Space),
                  Grp("1", 2, DecimalNumberItems)>>,
     groups |-> 2]

\* DmsTokenItems with the hemisphere letter optional: [H]?
DmsTokenItemsOptionalHemisphere(H, g) ==
    <<Cls("?", {"-"}), Cls("+", Digit), Cls("1", {"deg"}), Cls("*", Space),
      Cls("+", Digit), Cls("?", {"'"}), Cls("*", Space),
      Cls("+", Digit), Grp("?", g, <<Cls("1", {"."}), Cls("+", Digit)>>),
      Cls("?", {"dq"}), Cls("*", Space), Cls("?", H)>>

\* -?\d+°\s*\d+'?\s*\d+(\.\d+)?"?\s*[H], the fraction being group g
DmsTokenItems(H, g) ==
    <<Cls("?", {"-"}), Cls("+", Digit), Cls("1", {"deg"}), Cls("*", Space),
      Cls("+", Digit), Cls("?", {"'"}), Cls("*", Space),
      Cls("+", Digit), Grp("?", g, <<Cls("1", {"."}), Cls("+", Digit)>>),
      Cls("?", {"dq"}), Cls("*", Space), Cls("1", H)>>

\* /^(-?\d+°\s*\d+'?\s*\d+(\.\d+)?"?\s*[NS])\s*,?\s*(-?\d+°\s*\d+'?\s*\d+(\.\d+)?"?\s*[EW])$/
DmsPattern ==
    [items  |-> <<Grp("1", 1, DmsTokenItems({"N", "S"}, 2)),
                  Cls("*", Space), Cls("?", {","}), Cls("*", Space),
                  Grp("1", 3, DmsTokenItems({"E", "W"}, 4))>>,
     groups |-> 4]

patterns == <<DecimalPattern, DmsPattern>>

\* pattern.toString().includes("NS"): the source of the pattern has the
\* class [NS]
RECURSIVE HasClassNS(_)
HasClassNS(items) ==
    /\ items # <<>>
    /\ \/ Head(items).kind = "cls" /\ Head(items).cls = {"N", "S"}
       \/ Head(items).kind = "grp" /\ HasClassNS(Head(items).body)
       \/ HasClassNS(Tail(items))

IncludesNS(pattern) == HasClassNS(pattern.items)

\* the value of a run of digits
RECURSIVE DigitsValue(_)
DigitsValue(ds) ==
    IF ds = <<>> THEN 0
    ELSE 10 * DigitsValue(SubSeq(ds, 1, Len(ds) - 1)) + DigitValue(ds[Len(ds)])

\* parseInt of a text that starts with digits
parseInt(s) == DigitsValue(SubSeq(s, 1, ClassRun(s, 1, Digit)))

\* parseFloat of a text that starts with -?\d+, as an exact rational
parseFloat(s) ==
    LET neg   == s # <<>> /\ s[1] = "-"
        from  == IF neg THEN 2 ELSE 1
        nInt  == ClassRun(s, from, Digit)
        dot   == from + nInt
        nFrac == IF dot <= Len(s) /\ s[dot] = "." THEN ClassRun(s, dot + 1, Digit) ELSE 0
        whole == DigitsValue(SubSeq(s, from, dot - 1))
        frac  == DigitsValue(SubSeq(s, dot + 1, dot + nFrac))
        mag   == whole * Pow10(nFrac) + frac
    IN  Rat(IF neg THEN -mag ELSE mag, Pow10(nFrac))

\* /(\d+)°\s*(\d+)?'?\s*(\d+(\.\d+)?)?"?\s*([NS]|[EW])/i
ParseDmsPattern ==
    [items  |-> <<Grp("1", 1, <<Cls("+", Digit)>>), Cls("1", {"deg"}), Cls("*", Space),
                  Grp("?", 2, <<Cls("+", Digit)>>), Cls("?", {"'"}), Cls("*", Space),
                  Grp("?", 3, <<Cls("+", Digit),
                                Grp("?", 4, <<Cls("1", {"."}), Cls("+", Digit)>>)>>),
                  Cls("?", {"dq"}), Cls("*", Space),
                  Grp("1", 5, <<Cls("1", {"N", "S", "E", "W", "n", "s", "e", "w"})>>)>>,
     groups |-> 5]

\* dd = degrees + minutes / 60 + seconds / 3600, negated for S and W
DmsDecimal(degrees, minutes, seconds, direction) ==
    LET dd == Rat((degrees * 60 + minutes) * 60 * seconds.d + seconds.n,
                  3600 * seconds.d)
    IN  IF direction = "S" \/ direction = "W" THEN Rat(-dd.n, dd.d) ELSE dd

parseDMS(dms) ==
    LET parts == MatchUnanchored(dms, ParseDmsPattern)
    IN  IF parts = Null THEN Null
        ELSE LET degrees   == parseInt(parts[1])
                 minutes   == IF parts[2] # <<>> THEN parseInt(parts[2]) ELSE 0
                 seconds   == IF parts[3] # <<>> THEN parseFloat(parts[3]) ELSE Rat(0, 1)
                 direction == ToUpperCase(parts[5][1])
             IN  DmsDecimal(degrees, minutes, seconds, direction)

\* CoordinatesOf with the two numbers of the decimal pair taken in the other order
CoordinatesOfLngFirst(pattern, match) ==
    IF IncludesNS(pattern)
    THEN [lat |-> parseDMS(match[1]), lng |-> parseDMS(match[3])]
    ELSE [lat |-> parseFloat(match[2]), lng |-> parseFloat(match[1])]

\* what a matched pattern is turned into
CoordinatesOf(pattern, match) ==
    IF IncludesNS(pattern)
    THEN [lat |-> parseDMS(match[1]), lng |-> parseDMS(match[3])]
    ELSE [lat |-> parseFloat(match[1]), lng |-> parseFloat(match[2])]

\* for (const pattern of patterns) ...; return null
RECURSIVE TryPatterns(_, _)
TryPatterns(t, i) ==
    IF i > Len(patterns) THEN Null
    ELSE LET match == MatchAnchored(t, patterns[i])
         IN  IF match # Null THEN CoordinatesOf(patterns[i], match)
             ELSE TryPatterns(t, i + 1)

parseCoordinates(t) == TryPatterns(t, 1)

-----------------------------------------------------------------------------
(* The texts typed into the search box.  A query is written from its       *)
(* parts, so that what the text denotes is known apart from the parser.    *)

NoNum == [neg |-> FALSE, int |-> 0, fnum |-> 0, flen |-> 0]
NoTok == [minus |-> FALSE, deg |-> 0, pad |-> 0, hasMin |-> FALSE, min |-> 0,
          apos |-> FALSE, ws1 |-> 0, hasSec |-> FALSE, sec |-> 0, fnum |-> 0,
          flen |-> 0, quot |-> FALSE, hemi |-> ""]
NoQuery == [kind |-> "none", latNum |-> NoNum, lngNum |-> NoNum,
            latTok |-> NoTok, lngTok |-> NoTok,
            wsBefore |-> 0, comma |-> FALSE, wsAfter |-> 0,
            junkAt |-> 0, chars |-> <<>>]

Blank(k) == [i \in 1..k |-> " "]

\* n written with exactly len digits
PadDigits(n, len) == [i \in 1..len |-> DigitChars[((n \div Pow10(len - i)) % 10) + 1]]

RECURSIVE NumLen(_)
NumLen(n) == IF n < 10 THEN 1 ELSE 1 + NumLen(n \div 10)

ToDigits(n) == PadDigits(n, NumLen(n))

Fraction(fnum, flen) == IF flen = 0 THEN <<>> ELSE <<".">> \o PadDigits(fnum, flen)

FormatNum(num) ==
    (IF num.neg THEN <<"-">> ELSE <<>>) \o ToDigits(num.int) \o Fraction(num.fnum, num.flen)

FormatTok(t) ==
    (IF t.minus THEN <<"-">> ELSE <<>>) \o ToDigits(t.deg) \o <<"deg">> \o Blank(t.pad)
    \o (IF t.hasMin THEN ToDigits(t.min) ELSE <<>>)
    \o (IF t.apos THEN <<"'">> ELSE <<>>) \o Blank(t.ws1)
    \o (IF t.hasSec THEN ToDigits(t.sec) \o Fraction(t.fnum, t.flen) ELSE <<>>)
    \o (IF t.quot THEN <<"dq">> ELSE <<>>) \o Blank(t.pad)
    \o (IF t.hemi = "" THEN <<>> ELSE <<t.hemi>>)

Separator(q) ==
    Blank(q.wsBefore) \o (IF q.comma THEN <<",">> ELSE <<>>) \o Blank(q.wsAfter)

InsertAt(s, at, c) == SubSeq(s, 1, at - 1) \o <<c>> \o SubSeq(s, at, Len(s))

FormatBase(q) ==
    CASE q.kind = "decimal" -> FormatNum(q.latNum) \o Separator(q) \o FormatNum(q.lngNum)
      [] q.kind = "dms"     -> FormatTok(q.latTok) \o Separator(q) \o FormatTok(q.lngTok)
      [] OTHER              -> q.chars

FormatQuery(q) ==
    IF q.junkAt = 0 THEN FormatBase(q) ELSE InsertAt(FormatBase(q), q.junkAt, "x")

\* the numbers written in decimal queries
Fractions == {<<0, 0>>, <<5, 1>>, <<25, 2>>, <<5, 2>>}
Nums(ints) ==
    {[neg |-> neg, int |-> i, fnum |-> f[1], flen |-> f[2]] :
        neg \in BOOLEAN, i \in ints, f \in Fractions}
LatNums == Nums({0, 30, 89}) \cup {n \in Nums({90, 91}) : n.flen # 1}
LngNums == {n \in Nums({7, 120}) : n.flen < 2} \cup {n \in Nums({180, 181}) : n.flen = 0}

DecimalQueries ==
    {[NoQuery EXCEPT !.kind = "decimal", !.latNum = a, !.lngNum = b,
                     !.wsBefore = wb, !.comma = TRUE, !.wsAfter = wa] :
        a \in LatNums, b \in LngNums, wb \in 0..MaxWs, wa \in 0..MaxWs}

\* the ways a DMS token writes its minutes and seconds: a mark (' or dq)
\* or a blank tells the two runs of digits apart, a lone unmarked run of
\* digits is minutes, and seconds alone carry their mark
TokShapes ==
    {sh \in [hasMin : BOOLEAN, apos : BOOLEAN, ws1 : 0..MaxWs, hasSec : BOOLEAN,
             flen : 0..1, quot : BOOLEAN] :
        /\ sh.apos => sh.hasMin
        /\ sh.quot => sh.hasSec
        /\ sh.flen > 0 => sh.hasSec
        /\ sh.ws1 > 0 => sh.hasMin /\ sh.hasSec
        /\ sh.hasMin /\ sh.hasSec => sh.apos \/ sh.ws1 > 0
        /\ sh.hasSec /\ ~sh.hasMin => sh.quot}

Tok(sh, minus, pad, dms, hemi) ==
    [minus |-> minus, deg |-> dms[1], pad |-> pad, hasMin |-> sh.hasMin,
     min |-> IF sh.hasMin THEN dms[2] ELSE 0, apos |-> sh.apos, ws1 |-> sh.ws1,
     hasSec |-> sh.hasSec, sec |-> IF sh.hasSec THEN dms[3] ELSE 0,
     fnum |-> IF sh.flen > 0 THEN 5 ELSE 0, flen |-> sh.flen, quot |-> sh.quot,
     hemi |-> hemi]

LatDms == {<<30, 21, 20>>, <<7, 5, 6>>}
LngDms == {<<120, 30, 40>>, <<0, 8, 9>>}
LatHemis == {"N", "S", "E", ""}
LngHemis == {"E", "W", ""}
Separators == {<<0, TRUE, 0>>, <<0, TRUE, MaxWs>>, <<MaxWs, FALSE, 0>>, <<0, FALSE, 0>>}

DmsQueries ==
    {[NoQuery EXCEPT !.kind = "dms",
                     !.latTok = Tok(sh, minus, pad, a, ha),
                     !.lngTok = Tok(sh, minus, pad, b, hb),
                     !.wsBefore = sep[1], !.comma = sep[2], !.wsAfter = sep[3]] :
        sh \in TokShapes, minus \in BOOLEAN, pad \in 0..MaxWs,
        a \in LatDms, ha \in LatHemis, b \in LngDms, hb \in LngHemis,
        sep \in Separators}

\* a character of no grammar put into a well-formed text, at every place
JunkBases ==
    {q \in DecimalQueries :
        /\ q.latNum = [neg |-> TRUE, int |-> 30, fnum |-> 5, flen |-> 1]
        /\ q.lngNum = [neg |-> FALSE, int |-> 120, fnum |-> 0, flen |-> 0]
        /\ q.wsBefore = 0 /\ q.wsAfter = 0}
    \cup
    {q \in DmsQueries :
        /\ q.latTok.deg = 30 /\ q.lngTok.deg = 120 /\ ~q.latTok.minus
        /\ q.latTok.hasMin /\ q.latTok.apos /\ q.latTok.ws1 = 0 /\ q.latTok.hasSec
        /\ q.latTok.flen = 1 /\ q.latTok.quot /\ q.latTok.pad = 0
        /\ q.latTok.hemi = "N" /\ q.lngTok.hemi = "E"
        /\ q.comma /\ q.wsAfter = 0}

JunkQueries ==
    UNION {{[q EXCEPT !.junkAt = at] : at \in 1..(Len(FormatBase(q)) + 1)} :
              q \in JunkBases}

\* texts that are no coordinates at all
Texts ==
    {<<"n", "o", "t", " ", "a", " ", "c", "o", "o", "r", "d", "i", "n", "a", "t", "e">>,
     <<>>,
     <<"3", "0">>,
     <<"3", "0", ",">>,
     <<",", "1", "2", "0">>,
     <<"3", "0", " ", "1", "2", "0">>,
     <<"3", "0", ",", "1", "2", "0", ",", "5">>,
     <<".", "5", ",", "1", "2", "0">>,
     <<"3", "0", ".", "5", ".", "1", ",", "1", "2", "0">>,
     <<"-", "-", "3", "0", ",", "1", "2", "0">>,
     <<"N", ",", "E">>,
     <<"deg", "N", ",", "deg", "E">>,
     <<"3", "0", "deg", "2", "1", "'", "2", "0", "dq", "N">>,
     <<"H", "a", "n", "g", "z", "h", "o", "u">>}

TextQueries == {[NoQuery EXCEPT !.kind = "text", !.chars = t] : t \in Texts}

\* DMS pairs with a part beyond its range: 200 degrees, 75 minutes
FullTok(deg, min, sec, hemi) ==
    [NoTok EXCEPT !.deg = deg, !.hasMin = TRUE, !.min = min, !.apos = TRUE,
                  !.hasSec = TRUE, !.sec = sec, !.quot = TRUE, !.hemi = hemi]

OutOfRangeQueries ==
    {[NoQuery EXCEPT !.kind = "dms", !.latTok = FullTok(a[1], a[2], a[3], "N"),
                     !.lngTok = FullTok(b[1], b[2], b[3], "E"), !.comma = TRUE] :
        a \in {<<200, 0, 0>>, <<30, 75, 0>>}, b \in {<<120, 30, 40>>, <<200, 0, 0>>}}

Queries ==
    DecimalQueries \cup DmsQueries \cup OutOfRangeQueries \cup JunkQueries \cup TextQueries

-----------------------------------------------------------------------------
(* Geometry and measurement.  Points are <<lat, lng>> on a small grid whose *)
(* unit is one metre; lengths and areas are held in thousandths.  The two  *)
(* Leaflet functions the component calls are stood in for by their planar  *)
(* counterparts.                                                           *)

Kinds == {"polyline", "polygon", "circle", "marker", "rectangle"}

\* the square root of x, in thousandths, rounded down
SqrtMilli(x) ==
    CHOOSE n \in 0..(1000 * (x + 1)) :
        n * n <= x * 1000000 /\ (n + 1) * (n + 1) > x * 1000000

\* the square roots of the squared distances on the grid
SqrtTable == [x \in 0..8 |-> SqrtMilli(x)]

\* L.LatLng.distanceTo (Leaflet): here the straight-line distance
distanceTo(a, b) ==
    LET dLat == a[1] - b[1]
        dLng == a[2] - b[2]
    IN  SqrtTable[dLat * dLat + dLng * dLng]

\* L.GeometryUtil.geodesicArea (leaflet-geometryutil / leaflet-draw): here the
\* planar area of the closed ring, 0 for fewer than three points
RECURSIVE RingSum(_, _)
RingSum(ring, i) ==
    IF i > Len(ring) THEN 0
    ELSE LET p == ring[i]
             r == ring[(i % Len(ring)) + 1]
         IN  (r[2] - p[2]) * (p[1] + r[1]) + RingSum(ring, i + 1)

geodesicArea(ring) == IF Len(ring) > 2 THEN Abs(RingSum(ring, 1)) * 500 ELSE 0

\* Math.PI, in thousandths
PiMilli == 3142

\* for (let i = 1; i < latlngs.length; i++) distance += ...
RECURSIVE DistanceFrom(_, _)
DistanceFrom(points, i) ==
    IF i > Len(points) THEN 0
    ELSE distanceTo(points[i - 1], points[i]) + DistanceFrom(points, i + 1)

\* calculateDistance with the way back from the last point to the first added
calculateDistanceClosed(geom) ==
    DistanceFrom(geom.points, 2)
    + (IF Len(geom.points) > 2
       THEN distanceTo(geom.points[Len(geom.points)], geom.points[1]) ELSE 0)

calculateDistance(geom) == DistanceFrom(geom.points, 2)

calculatePolygonArea(geom) == geodesicArea(geom.points)

calculateCircleArea(geom) == PiMilli * geom.radius * geom.radius

\* RectangleRing with the two given corners first: a ring that crosses itself
RectangleRingCrossing(geom) ==
    LET northEast == geom.ne
        southWest == geom.sw
    IN  <<northEast, southWest,
          <<northEast[1], southWest[2]>>, <<southWest[1], northEast[2]>>>>

\* the four corners handed to geodesicArea
RectangleRing(geom) ==
    LET northEast == geom.ne
        southWest == geom.sw
    IN  <<northEast, <<northEast[1], southWest[2]>>,
          southWest, <<southWest[1], northEast[2]>>>>

calculateRectangleArea(geom) == geodesicArea(RectangleRing(geom))

calculateArea(geom, type) ==
    CASE type = "polygon"   -> calculatePolygonArea(geom)
      [] type = "circle"    -> calculateCircleArea(geom)
      [] type = "rectangle" -> calculateRectangleArea(geom)
      [] OTHER              -> 0

\* Number.prototype.toFixed(2) of a value in thousandths: hundredths, rounded
ToFixed2(milli) == (milli + 5) \div 10

\* the geometries a draw tool or an edit can give a layer
NoGeom == [points |-> <<>>, radius |-> 0, ne |-> <<0, 0>>, sw |-> <<0, 0>>]
Path(points) == [NoGeom EXCEPT !.points = points]
Geoms(kind) ==
    CASE kind = "polyline"  -> {Path(<<<<0, 0>>, <<0, 1>>>>),
                                Path(<<<<0, 0>>, <<0, 1>>, <<1, 1>>>>)}
      [] kind = "polygon"   -> {Path(<<<<0, 0>>, <<0, 1>>, <<1, 0>>>>),
                                Path(<<<<0, 0>>, <<0, 1>>, <<1, 1>>, <<1, 0>>>>)}
      [] kind = "circle"    -> {[NoGeom EXCEPT !.points = <<<<0, 0>>>>, !.radius = 1],
                                [NoGeom EXCEPT !.points = <<<<0, 0>>>>, !.radius = 2]}
      [] kind = "marker"    -> {Path(<<<<0, 0>>>>), Path(<<<<1, 1>>>>)}
      [] kind = "rectangle" -> {[NoGeom EXCEPT !.ne = <<1, 1>>, !.sw = <<0, 0>>],
                                [NoGeom EXCEPT !.ne = <<1, 2>>, !.sw = <<0, 0>>]}

-----------------------------------------------------------------------------
(* The draw tools: initDrawTools and the handlers it registers. *)

Ids == 1..MaxShapes
NoDraft == [kind |-> "", geom |-> NoGeom]
\* open: the popup of the layer was open when the event came
NoEvent == [type |-> "none", layer |-> 0, kind |-> "", open |-> FALSE, steps |-> <<>>]

\* drawOptions.draw with every kind enabled by props.enableDraw alone
drawOptionsAllByDraw(kind) ==
    CASE kind \in Kinds -> enableDraw
      [] OTHER          -> FALSE

\* the props the tools are configured from, and the values they can take
props == [enableDraw |-> enableDraw, enableMeasure |-> enableMeasure]
Props == [enableDraw : BOOLEAN, enableMeasure : BOOLEAN]

\* drawOptions.draw as built from props p: the tool of a kind is configured
\* (TRUE) or false
drawOptionsOf(p, kind) ==
    CASE kind = "polyline"  -> p.enableMeasure
      [] kind = "polygon"   -> p.enableMeasure
      [] kind = "circle"    -> p.enableDraw
      [] kind = "marker"    -> p.enableDraw
      [] kind = "rectangle" -> p.enableDraw
      [] OTHER              -> FALSE

\* initDrawTools without its early return
ReturnsEarlyNever(p) == FALSE

\* if (!props.enableDraw && !props.enableMeasure) return;
ReturnsEarly(p) == ~p.enableDraw /\ ~p.enableMeasure

\* the kinds the toolbar of initDrawTools has a tool for: none when it
\* returned early
ToolKinds(p) ==
    IF ReturnsEarly(p) THEN {}
    ELSE {kind \in Kinds : drawOptionsOf(p, kind)}

\* drawOptions.draw of the mounted component
drawOptions(kind) == drawOptionsOf(props, kind)

\* the measurement text of the CREATED handler of Leaflet.jsx, which measures
\* polylines and polygons only
measurementTextLinesOnly(type, geom) ==
    CASE type = "polyline" -> [label |-> "Distance", value |-> ToFixed2(calculateDistance(geom))]
      [] type = "polygon"  -> [label |-> "Area", value |-> ToFixed2(calculateArea(geom, type))]
      [] OTHER             -> Null

\* measurementText of the CREATED handler: Null is the empty text
measurementText(type, geom) ==
    CASE type = "polyline" ->
            [label |-> "Distance", value |-> ToFixed2(calculateDistance(geom))]
      [] type = "polygon" \/ type = "rectangle" ->
            [label |-> "Area", value |-> ToFixed2(calculateArea(geom, type))]
      [] type = "circle" ->
            [label |-> "Area", value |-> ToFixed2(calculateArea(geom, type))]
      [] OTHER -> Null

\* the condition under which the CREATED handler measures the layer
MeasuresOnCreate(type) ==
    enableMeasure \/ type = "circle" \/ type = "rectangle"

\* the layerremove handler with `layer._popup = null` left out
PopupAfterRemoveKept(p) == p

\* layer._popup after the layerremove handler: close(), remove(), = null
PopupAfterRemove(p) == IF p # Null THEN Null ELSE p

DrawnLayers == IF drawnItems = <<>> THEN {} ELSE drawnItems[1]

InitDraw ==
    /\ enableDraw \in BOOLEAN
    /\ enableMeasure \in BOOLEAN
    /\ mounted = FALSE
    /\ drawnItems = <<>>
    /\ mapLayers = {}
    /\ layerType = [l \in Ids |-> ""]
    /\ latlngs = [l \in Ids |-> NoGeom]
    /\ popup = [l \in Ids |-> Null]
    /\ listening = [l \in Ids |-> FALSE]
    /\ mapPopup = 0
    /\ draft = NoDraft
    /\ nextId = 1
    /\ lastEvent = NoEvent
    /\ deleted = {}
    /\ removed = {}

\* onMounted: initMap, and in it initDrawTools
Mount ==
    /\ ~mounted
    /\ mounted' = TRUE
    /\ drawnItems' = IF ReturnsEarly(props) THEN drawnItems ELSE <<{}>>
    /\ lastEvent' = [NoEvent EXCEPT !.type = "mounted"]
    /\ UNCHANGED <<searchVars, geoVars, measureVars, appVars, cesiumVars>>
    /\ UNCHANGED <<enableDraw, enableMeasure, mapLayers, layerType, latlngs, popup,
                   listening, mapPopup, draft, nextId, deleted, removed>>

\* the user reaches for the draw tool of a kind: L.Control.Draw(drawOptions)
\* has a tool only for the kinds whose option is not false, and no toolbar
\* at all when initDrawTools returned early
DrawStart(kind, geom) ==
    /\ mounted
    /\ draft = NoDraft
    /\ deleted = {}
    /\ nextId <= MaxShapes
    /\ IF drawnItems # <<>> /\ drawOptions(kind)
       THEN /\ draft' = [kind |-> kind, geom |-> geom]
            /\ lastEvent' = [NoEvent EXCEPT !.type = "drawstart", !.kind = kind]
       ELSE /\ draft' = draft
            /\ lastEvent' = [NoEvent EXCEPT !.type = "ShapeKindDisabled", !.kind = kind]
    /\ UNCHANGED <<searchVars, geoVars, measureVars, appVars, cesiumVars>>
    /\ UNCHANGED <<enableDraw, enableMeasure, mounted, drawnItems, mapLayers, layerType,
                   latlngs, popup, listening, mapPopup, nextId, deleted, removed>>

\* the handler of L.Draw.Event.CREATED, for the shape the tool finished
Created ==
    /\ draft # NoDraft
    /\ LET layer == nextId
           type  == draft.kind
           measurement == IF MeasuresOnCreate(type)
                          THEN measurementText(type, draft.geom) ELSE Null
       IN  /\ layerType' = [layerType EXCEPT ![layer] = type]
           /\ latlngs' = [latlngs EXCEPT ![layer] = draft.geom]
           \* drawnItems.value.addLayer(layer): into the group, and onto the map
           /\ drawnItems' = <<DrawnLayers \cup {layer}>>
           /\ mapLayers' = mapLayers \cup {layer}
           \* layer.bindPopup(measurementText).openPopup()
           /\ popup' = [popup EXCEPT ![layer] = measurement]
           /\ listening' = [listening EXCEPT ![layer] = measurement # Null]
           /\ mapPopup' = IF measurement # Null THEN layer ELSE mapPopup
           /\ lastEvent' = [NoEvent EXCEPT !.type = "created", !.layer = layer, !.kind = type]
    /\ draft' = NoDraft
    /\ nextId' = nextId + 1
    /\ UNCHANGED <<searchVars, geoVars, measureVars, appVars, cesiumVars>>
    /\ UNCHANGED <<enableDraw, enableMeasure, mounted, deleted, removed>>

\* the edit toolbar saves an edit of a layer (draw:edited): the geometry is
\* the new one, and initDrawTools registers no handler for the event
EditCompleted(layer, geom) ==
    /\ layer \in DrawnLayers
    /\ deleted = {}
    /\ geom \in Geoms(layerType[layer])
    /\ geom # latlngs[layer]
    /\ latlngs' = [latlngs EXCEPT ![layer] = geom]
    /\ lastEvent' = [NoEvent EXCEPT !.type = "edited", !.layer = layer,
                                    !.kind = layerType[layer]]
    /\ UNCHANGED <<searchVars, geoVars, measureVars, appVars, cesiumVars>>
    /\ UNCHANGED <<enableDraw, enableMeasure, mounted, drawnItems, mapLayers, layerType,
                   popup, listening, mapPopup, draft, nextId, deleted, removed>>

\* the layers and their popups while one event is handled, with the steps
\* taken so far
World ==
    [group |-> DrawnLayers, map |-> mapLayers, popup |-> popup, open |-> mapPopup,
     listening |-> listening, steps |-> <<>>]

\* map.removeLayer(layer) (Leaflet): the layer leaves the map and fires
\* remove, on which the listener bindPopup registered closes its open popup
MapRemoveLayer(w, layer) ==
    LET closes == w.open = layer /\ w.listening[layer]
    IN  [w EXCEPT !.map = @ \ {layer},
                  !.open = IF closes THEN 0 ELSE @,
                  !.steps = @ \o <<"map.removeLayer">>
                              \o (IF closes THEN <<"layer.closePopup">> ELSE <<>>)]

\* L.FeatureGroup.removeLayer(layer) (Leaflet) up to its layerremove event:
\* the group is on the map, so the layer is taken off the map, then out of
\* the group
GroupRemoveLayer(w, layer) ==
    LET a == IF layer \in w.map THEN MapRemoveLayer(w, layer) ELSE w
    IN  [a EXCEPT !.group = @ \ {layer}, !.steps = Append(@, "group.delete")]

\* const layer = event.layer
HandledLayer(eventLayer) == eventLayer

\* the layerremove handler
OnLayerRemove(w, layer) ==
    LET a == IF w.popup[layer] # Null
             THEN [w EXCEPT !.open = IF @ = layer THEN 0 ELSE @,
                            !.popup[layer] = PopupAfterRemove(w.popup[layer]),
                            !.steps = @ \o <<"popup.close", "popup.remove", "popup.detach">>]
             ELSE w
        b == IF layer \in a.map THEN MapRemoveLayer(a, layer) ELSE a
    IN  [b EXCEPT !.listening[layer] = FALSE, !.steps = Append(@, "layer.off")]

\* the delete tool of the edit toolbar takes a layer out:
\* drawnItems.removeLayer(layer), whose layerremove event the handler gets
RemoveRequested(layer) ==
    /\ layer \in DrawnLayers
    /\ draft = NoDraft
    /\ LET w == OnLayerRemove(GroupRemoveLayer(World, layer), HandledLayer(layer))
       IN  /\ drawnItems' = <<w.group>>
           /\ mapLayers' = w.map
           /\ mapPopup' = w.open
           /\ popup' = w.popup
           /\ listening' = w.listening
           /\ lastEvent' = [type |-> "removed", layer |-> layer, kind |-> layerType[layer],
                             open |-> mapPopup = layer, steps |-> w.steps]
    /\ removed' = removed \cup {layer}
    /\ deleted' = deleted \cup {layer}
    /\ UNCHANGED <<searchVars, geoVars, measureVars, appVars, cesiumVars>>
    /\ UNCHANGED <<enableDraw, enableMeasure, mounted, layerType, latlngs, draft, nextId>>

\* the delete tool is left with Save: draw:deleted, which has no handler
RemoveSaved ==
    /\ deleted # {}
    /\ deleted' = {}
    /\ lastEvent' = [NoEvent EXCEPT !.type = "deleted"]
    /\ UNCHANGED <<searchVars, geoVars, measureVars, appVars, cesiumVars>>
    /\ UNCHANGED <<enableDraw, enableMeasure, mounted, drawnItems, mapLayers, layerType,
                   latlngs, popup, listening, mapPopup, draft, nextId, removed>>

\* the delete tool is left with Cancel: the toolbar puts the layers it took
\* out back with drawnItems.addLayer(layer), into the group and onto the map
RemoveCancelled ==
    /\ deleted # {}
    /\ drawnItems' = <<DrawnLayers \cup deleted>>
    /\ mapLayers' = mapLayers \cup deleted
    /\ deleted' = {}
    /\ lastEvent' = [NoEvent EXCEPT !.type = "revert-deleted"]
    /\ UNCHANGED <<searchVars, geoVars, measureVars, appVars, cesiumVars>>
    /\ UNCHANGED <<enableDraw, enableMeasure, mounted, layerType, latlngs, popup,
                   listening, mapPopup, draft, nextId, removed>>

\* the zoomstart handler: the open popup of a drawn layer is closed
ZoomStart ==
    /\ drawnItems # <<>>
    /\ mapPopup' = IF mapPopup \in DrawnLayers /\ popup[mapPopup] # Null THEN 0 ELSE mapPopup
    /\ lastEvent' = IF mapPopup \in DrawnLayers /\ popup[mapPopup] # Null
                    THEN [NoEvent EXCEPT !.type = "zoomstart", !.layer = mapPopup,
                                         !.open = TRUE]
                    ELSE [NoEvent EXCEPT !.type = "zoomstart"]
    /\ UNCHANGED <<searchVars, geoVars, measureVars, appVars, cesiumVars>>
    /\ UNCHANGED <<enableDraw, enableMeasure, mounted, drawnItems, mapLayers, layerType,
                   latlngs, popup, listening, draft, nextId, deleted, removed>>

\* the zoomend handler: popup.update() of the popups of the drawn layers
ZoomEnd ==
    /\ drawnItems # <<>>
    /\ lastEvent.type = "zoomstart"
    /\ lastEvent' = [NoEvent EXCEPT !.type = "zoomend"]
    /\ UNCHANGED <<searchVars, geoVars, measureVars, appVars, cesiumVars>>
    /\ UNCHANGED <<enableDraw, enableMeasure, mounted, drawnItems, mapLayers, layerType,
                   latlngs, popup, listening, mapPopup, draft, nextId, deleted, removed>>

NextDraw ==
    \/ Mount
    \/ \E kind \in Kinds : \E geom \in Geoms(kind) : DrawStart(kind, geom)
    \/ Created
    \/ \E layer \in Ids : \E kind \in Kinds : \E geom \in Geoms(kind) :
          EditCompleted(layer, geom)
    \/ \E layer \in Ids : RemoveRequested(layer)
    \/ RemoveSaved
    \/ RemoveCancelled
    \/ ZoomStart
    \/ ZoomEnd

-----------------------------------------------------------------------------
(* The search box: the text typed is handed to parseCoordinates. *)

InitSearch ==
    /\ phase = "idle"
    /\ query = NoQuery
    /\ text = <<>>
    /\ coords = Null

\* searchFn(text) up to `const coords = parseCoordinates(text)`
Search(q) ==
    /\ phase = "idle"
    /\ phase' = "parsed"
    /\ query' = q
    /\ text' = FormatQuery(q)
    /\ coords' = parseCoordinates(FormatQuery(q))
    /\ UNCHANGED <<drawVars, geoVars, measureVars, appVars, cesiumVars>>

NextSearch == \E q \in Queries : Search(q)

-----------------------------------------------------------------------------
(* searchFn: the asynchronous search function of the search control.  A   *)
(* call runs to its first await in one step, and each await is a place     *)
(* where other calls may run.  The two characters of the label's prefix    *)
(* have the names "zuo" and "biao".                                        *)

\* a JavaScript string, and the undefined a missing property reads as
Str(chars) == [t |-> "string", chars |-> chars]
Undefined == [t |-> "undefined", chars |-> <<>>]

\* the number NaN, in the shape of a rational
NaN == [n |-> 0, d |-> 0]

\* the digits k has to be shifted by for r to become an integer
RECURSIVE FractionLen(_, _)
FractionLen(r, k) == IF (Abs(r.n) * Pow10(k)) % r.d = 0 THEN k ELSE FractionLen(r, k + 1)

\* `${x}` of a number with a finite decimal expansion, of NaN and of null
NumberToString(r) ==
    IF r = Null THEN <<"n", "u", "l", "l">>
    ELSE IF r = NaN THEN <<"N", "a", "N">>
    ELSE LET k     == FractionLen(r, 0)
             whole == Abs(r.n) \div r.d
             frac  == ((Abs(r.n) * Pow10(k)) \div r.d) % Pow10(k)
         IN  (IF r.n < 0 THEN <<"-">> ELSE <<>>) \o ToDigits(whole)
             \o (IF k = 0 THEN <<>> ELSE <<".">> \o PadDigits(frac, k))

\* [{ name: `坐标: ${coords.lat}, ${coords.lng}`, location: coords }]
CoordinateResults(c) ==
    <<[name     |-> Str(<<"zuo", "biao", ":", " ">> \o NumberToString(c.lat)
                        \o <<",", " ">> \o NumberToString(c.lng)),
       location |-> c]>>

\* the places the geocoding service knows
Places ==
    {[name |-> <<"H", "a", "n", "g", "z", "h", "o", "u">>,
      latNum |-> [neg |-> FALSE, int |-> 30, fnum |-> 25, flen |-> 2],
      lngNum |-> [neg |-> FALSE, int |-> 120, fnum |-> 5, flen |-> 1]],
     [name |-> <<"S", "y", "d", "n", "e", "y">>,
      latNum |-> [neg |-> TRUE, int |-> 33, fnum |-> 5, flen |-> 1],
      lngNum |-> [neg |-> FALSE, int |-> 151, fnum |-> 0, flen |-> 0]]}

\* most records in one answer of the service
MaxRecords == 2

\* the sequences of at most n places
RECURSIVE PlaceSeqs(_)
PlaceSeqs(n) ==
    IF n = 0 THEN {<<>>}
    ELSE LET shorter == PlaceSeqs(n - 1)
         IN  shorter \cup {Append(ps, p) : ps \in {x \in shorter : Len(x) = n - 1},
                                            p \in Places}

\* what may come of one request: the fetch fails, the body is no JSON, the
\* body is JSON of the wrong shape, or it is a sequence of records
Answers ==
    {[kind |-> k, places |-> <<>>] :
        k \in {"networkError", "invalidJson", "object", "null", "numbers"}}
    \cup {[kind |-> "nullItem", places |-> <<p>>] : p \in {x \in Places : x.latNum.neg}}
    \cup {[kind |-> "records", places |-> ps] : ps \in PlaceSeqs(MaxRecords)}
NoAnswer == [kind |-> "none", places |-> <<>>]

\* one element of the decoded body
NullItem == [type |-> "null", display_name |-> Undefined, lat |-> Undefined, lon |-> Undefined]
NumberItem == [type |-> "number", display_name |-> Undefined, lat |-> Undefined, lon |-> Undefined]
RecordItem(p) ==
    [type |-> "object", display_name |-> Str(p.name),
     lat |-> Str(FormatNum(p.latNum)), lon |-> Str(FormatNum(p.lngNum))]

\* the value response.json() decodes the body of an answer to
DataOf(answer) ==
    CASE answer.kind = "records"  ->
            [type |-> "array",
             items |-> [i \in 1..Len(answer.places) |-> RecordItem(answer.places[i])]]
      [] answer.kind = "nullItem" ->
            [type |-> "array",
             items |-> [i \in 1..Len(answer.places) |-> RecordItem(answer.places[i])]
                       \o <<NullItem>>]
      [] answer.kind = "numbers"  -> [type |-> "array", items |-> <<NumberItem>>]
      [] answer.kind = "object"   -> [type |-> "object", items |-> <<>>]
      [] OTHER                    -> [type |-> "null", items |-> <<>>]

\* parseFloat of a property: NaN for undefined
parseFloatOf(v) == IF v.t = "string" THEN parseFloat(v.chars) ELSE NaN

\* what a function ran to: a value, or an exception
Returns(value) == [threw |-> FALSE, value |-> value]
Throws == [threw |-> TRUE, value |-> <<>>]

\* MapData with the records taken last to first
MapDataReversed(data) ==
    IF data.type # "array" THEN Throws
    ELSE IF \E i \in 1..Len(data.items) : data.items[i].type = "null" THEN Throws
    ELSE Returns([i \in 1..Len(data.items) |->
                    LET item == data.items[Len(data.items) + 1 - i]
                    IN  [name     |-> item.display_name,
                         location |-> [lat |-> parseFloatOf(item.lat),
                                       lng |-> parseFloatOf(item.lon)]]])

\* data.map((item) => ({ name: item.display_name, location: {...} })): a
\* TypeError when data has no map, or when an item is null
MapData(data) ==
    IF data.type # "array" THEN Throws
    ELSE IF \E i \in 1..Len(data.items) : data.items[i].type = "null" THEN Throws
    ELSE Returns([i \in 1..Len(data.items) |->
                    LET item == data.items[i]
                    IN  [name     |-> item.display_name,
                         location |-> [lat |-> parseFloatOf(item.lat),
                                       lng |-> parseFloatOf(item.lon)]]])

\* searchFnCompletion without the try / catch: the promise is rejected
searchFnCompletionNoCatch(outcome) ==
    IF outcome.threw THEN [stage |-> "rejected", value |-> <<>>]
    ELSE [stage |-> "fulfilled", value |-> outcome.value]

\* try { ... return value } catch (error) { return [] }
searchFnCompletion(outcome) ==
    IF outcome.threw THEN [stage |-> "fulfilled", value |-> <<>>]
    ELSE [stage |-> "fulfilled", value |-> outcome.value]

\* SendsRequest with the early return left out
SendsRequestAlways(c) == TRUE

\* `if (coords) { return [...] }`: the fetch is reached only without coords
SendsRequest(c) == c = Null

\* number of calls of searchFn in one run
MaxCalls == 2

CallIds == 1..MaxCalls
NoCall == [stage |-> "none", q |-> NoQuery, text |-> <<>>, coords |-> Null,
           answer |-> NoAnswer, value |-> <<>>]

\* the texts typed into the search box in the runs of searchFn
GeoQueries ==
    {[NoQuery EXCEPT !.kind = "decimal", !.latNum = a,
                     !.lngNum = [neg |-> FALSE, int |-> 120, fnum |-> 5, flen |-> 1],
                     !.comma = TRUE, !.wsAfter = MaxWs] :
        a \in {[neg |-> TRUE, int |-> 30, fnum |-> 25, flen |-> 2],
               [neg |-> TRUE, int |-> 0, fnum |-> 0, flen |-> 0]}}
    \cup
    {[NoQuery EXCEPT !.kind = "dms",
                     !.latTok = [NoTok EXCEPT !.deg = 30, !.hasMin = TRUE, !.min = 30,
                                              !.apos = TRUE, !.hasSec = TRUE, !.sec = 0,
                                              !.quot = TRUE, !.hemi = "S"],
                     !.lngTok = [NoTok EXCEPT !.deg = 120, !.hasMin = TRUE, !.min = 15,
                                              !.apos = TRUE, !.hasSec = TRUE, !.sec = 0,
                                              !.quot = TRUE, !.hemi = "E"],
                     !.comma = TRUE]}
    \cup
    {[NoQuery EXCEPT !.kind = "text", !.chars = <<"3", "0", " ", "1", "2", "0">>]}

InitGeo ==
    /\ calls = [c \in CallIds |-> NoCall]
    /\ issued = 0
    /\ requests = <<>>
    /\ results = [call |-> 0, value |-> <<>>]

\* the control is handed what a call of searchFn returned
Handed(call, done) ==
    IF done.stage = "fulfilled" THEN [call |-> call, value |-> done.value] ELSE results

\* searchFn(text) up to the fetch: lines 532-549
SearchFn(q) ==
    /\ issued < MaxCalls
    /\ LET call == issued + 1
           t    == FormatQuery(q)
           c    == parseCoordinates(t)
           done == searchFnCompletion(Returns(CoordinateResults(c)))
       IN  /\ issued' = call
           /\ IF SendsRequest(c)
              THEN /\ calls' = [calls EXCEPT ![call] =
                                  [NoCall EXCEPT !.stage = "fetch", !.q = q, !.text = t,
                                                 !.coords = c]]
                   /\ requests' = Append(requests, [call |-> call, q |-> t])
                   /\ results' = results
              ELSE /\ calls' = [calls EXCEPT ![call] =
                                  [NoCall EXCEPT !.stage = done.stage, !.q = q, !.text = t,
                                                 !.coords = c, !.value = done.value]]
                   /\ requests' = requests
                   /\ results' = Handed(call, done)
    /\ UNCHANGED <<searchVars, drawVars, measureVars, appVars, cesiumVars>>

\* `await fetch(...)` settles: rejected for a network error, else a response
FetchSettles(call, answer) ==
    /\ calls[call].stage = "fetch"
    /\ IF answer.kind = "networkError"
       THEN LET done == searchFnCompletion(Throws)
            IN  /\ calls' = [calls EXCEPT ![call].stage = done.stage,
                                          ![call].answer = answer,
                                          ![call].value = done.value]
                /\ results' = Handed(call, done)
       ELSE /\ calls' = [calls EXCEPT ![call].stage = "json", ![call].answer = answer]
            /\ results' = results
    /\ UNCHANGED <<issued, requests>>
    /\ UNCHANGED <<searchVars, drawVars, measureVars, appVars, cesiumVars>>

\* `await response.json()` settles, and the rest of searchFn runs
JsonSettles(call) ==
    /\ calls[call].stage = "json"
    /\ LET answer == calls[call].answer
           done   == searchFnCompletion(IF answer.kind = "invalidJson" THEN Throws
                                        ELSE MapData(DataOf(answer)))
       IN  /\ calls' = [calls EXCEPT ![call].stage = done.stage,
                                     ![call].value = done.value]
           /\ results' = Handed(call, done)
    /\ UNCHANGED <<issued, requests>>
    /\ UNCHANGED <<searchVars, drawVars, measureVars, appVars, cesiumVars>>

NextGeocode ==
    \/ \E q \in GeoQueries : SearchFn(q)
    \/ \E call \in CallIds : \E answer \in Answers : FetchSettles(call, answer)
    \/ \E call \in CallIds : JsonSettles(call)

-----------------------------------------------------------------------------
(* The measurement functions on their own: a layer of any geometry the     *)
(* grid allows is handed to calculateDistance or to calculateArea.         *)

\* most points of a polyline or of a polygon ring
MaxPoints == 3

GridPoints == {<<lat, lng>> : lat \in 0..2, lng \in 0..2}

\* the sequences of at most n grid points
RECURSIVE PointSeqs(_)
PointSeqs(n) ==
    IF n = 0 THEN {<<>>}
    ELSE LET shorter == PointSeqs(n - 1)
         IN  shorter \cup {Append(ps, p) : ps \in {x \in shorter : Len(x) = n - 1},
                                            p \in GridPoints}

\* the layers: getLatLngs() of a polyline, getLatLngs()[0] of a polygon,
\* getRadius() of a circle, getBounds() of a rectangle, a marker
Shapes ==
    {[kind |-> k, geom |-> Path(ps)] : k \in {"polyline", "polygon"}, ps \in PointSeqs(MaxPoints)}
    \cup {[kind |-> "circle", geom |-> [NoGeom EXCEPT !.points = <<c>>, !.radius = r]] :
             c \in GridPoints, r \in 0..2}
    \cup {[kind |-> "rectangle", geom |-> [NoGeom EXCEPT !.ne = b[1], !.sw = b[2]]] :
             b \in {c \in GridPoints \X GridPoints :
                       c[2][1] <= c[1][1] /\ c[2][2] <= c[1][2]}}
    \cup {[kind |-> "marker", geom |-> Path(<<p>>)] : p \in GridPoints}

NoMeasurement == [of |-> "none", threw |-> FALSE, value |-> 0]

InitMeasure ==
    /\ shape \in Shapes
    /\ measured = NoMeasurement

\* calculateDistance(layer), as the CREATED handler calls it for a polyline
CallCalculateDistance ==
    /\ measured = NoMeasurement
    /\ shape.kind = "polyline"
    /\ measured' = [of |-> "distance", threw |-> FALSE,
                       value |-> calculateDistance(shape.geom)]
    /\ shape' = shape
    /\ UNCHANGED <<searchVars, drawVars, geoVars, appVars, cesiumVars>>

\* calculateArea(layer, layerType)
CallCalculateArea ==
    /\ measured = NoMeasurement
    /\ shape.kind # "polyline"
    /\ measured' = [of |-> "area", threw |-> FALSE,
                       value |-> calculateArea(shape.geom, shape.kind)]
    /\ shape' = shape
    /\ UNCHANGED <<searchVars, drawVars, geoVars, appVars, cesiumVars>>

NextMeasure == CallCalculateDistance \/ CallCalculateArea

-----------------------------------------------------------------------------
(* App.vue: the two maps are both kept mounted and switchMapMode shows one *)
(* of them; a 100 ms timer ends the transition.                            *)

MaxSwitches == 14

\* the modes the two buttons of the template pass
Modes == {"2D", "3D"}

NoSwitch == [op |-> "none", mode |-> "", accepted |-> FALSE]

\* the guard of switchMapMode without its test of isTransitioning
AcceptsSwitchWhileTransitioning(mode) == ~(mapMode = mode)

\* if (isTransitioning.value || mapMode.value === mode) return;
AcceptsSwitch(mode) == ~(isTransitioning \/ mapMode = mode)

\* the visibility assignments with leafletVisible left as it is for "3D"
VisibleAfterLeafletKept(mode) ==
    IF mode = "2D" THEN [cesium |-> FALSE, leaflet |-> TRUE]
    ELSE [leaflet |-> leafletVisible, cesium |-> TRUE]

\* if (mode === "2D") {...} else {...}: the two flags after the assignments
VisibleAfter(mode) ==
    IF mode = "2D" THEN [cesium |-> FALSE, leaflet |-> TRUE]
    ELSE [leaflet |-> FALSE, cesium |-> TRUE]

InitApp ==
    /\ mapMode = "2D"
    /\ leafletVisible = TRUE
    /\ cesiumVisible = FALSE
    /\ isTransitioning = FALSE
    /\ resetTimers = 0
    /\ switchCalls = 0
    /\ lastSwitch = NoSwitch

\* switchMapMode(mode)
SwitchMapMode(mode) ==
    /\ switchCalls < MaxSwitches
    /\ switchCalls' = switchCalls + 1
    /\ IF AcceptsSwitch(mode)
       THEN /\ isTransitioning' = TRUE
            /\ mapMode' = mode
            /\ leafletVisible' = VisibleAfter(mode).leaflet
            /\ cesiumVisible' = VisibleAfter(mode).cesium
            /\ resetTimers' = resetTimers + 1
            /\ lastSwitch' = [op |-> "switchMapMode", mode |-> mode, accepted |-> TRUE]
       ELSE /\ UNCHANGED <<isTransitioning, mapMode, leafletVisible, cesiumVisible,
                           resetTimers>>
            /\ lastSwitch' = [op |-> "switchMapMode", mode |-> mode, accepted |-> FALSE]
    /\ UNCHANGED <<searchVars, drawVars, geoVars, measureVars, cesiumVars>>

\* the callback of setTimeout(..., 100)
ResetTransition ==
    /\ resetTimers > 0
    /\ resetTimers' = resetTimers - 1
    /\ isTransitioning' = FALSE
    /\ lastSwitch' = [NoSwitch EXCEPT !.op = "timeout"]
    /\ UNCHANGED <<mapMode, leafletVisible, cesiumVisible, switchCalls>>
    /\ UNCHANGED <<searchVars, drawVars, geoVars, measureVars, cesiumVars>>

NextApp ==
    \/ \E mode \in Modes : SwitchMapMode(mode)
    \/ ResetTransition

-----------------------------------------------------------------------------
(* The Cesium component: the mount sequence with load3DTilesets, the       *)
(* camera listener of optimizeCameraMovement, cleanup and the exposed      *)
(* operations.  A call of an async function runs to its next await in one  *)
(* step.                                                                   *)

MaxTiles == 3
MaxEntities == 1

Tilesets == {"map", "building"}

\* the four awaits of load3DTilesets, in order
Awaits == <<"mapResource", "mapTileset", "buildingResource", "buildingTileset">>

AwaitIndex(st) == CHOOSE i \in 1..Len(Awaits) : Awaits[i] = st

\* what an operation did: "none" (it returned at once), "acted" (on the live
\* viewer), or it reached into the scene of the destroyed viewer
NoOp == [op |-> "none", effect |-> "none"]
Op(name, effect) == [op |-> name, effect |-> effect]

ExposedOps == {"addPipelines", "switchMapMode", "changeSkyBox"}

\* the keys of skyBoxConfigs the select offers, and its empty option
SkyBoxTypes == {"starry", ""}
SceneModes == {"2D", "3D", "2.5D"}

\* new Cesium.Viewer("cesiumContainer", {...})
NewViewer == [container |-> "cesiumContainer"]

InitCesium ==
    /\ enable3DTiles \in BOOLEAN
    /\ viewer = Null
    /\ destroyed = FALSE
    /\ stage = "setup"
    /\ isLoading = TRUE
    /\ tilesLoaded = 0
    /\ reported = {}
    /\ movementTimeout = FALSE
    /\ screenSpaceError = 2
    /\ entities = 0
    /\ sceneMode = "3D"
    /\ skyBox = "default"
    /\ lastOp = NoOp

\* the catch block of load3DTilesets
LoadFailed ==
    /\ isLoading' = FALSE
    /\ stage' = "caught"

\* onMounted: initViewer (created tells whether new Cesium.Viewer succeeded),
\* the configure functions, optimizeCameraMovement, and load3DTilesets up to
\* its first await
CesiumMounted(created) ==
    /\ stage = "setup"
    /\ viewer' = IF created THEN NewViewer ELSE Null
    /\ IF ~created \/ ~enable3DTiles
       THEN /\ stage' = "returned"
            /\ isLoading' = isLoading
       ELSE /\ stage' = Awaits[1]
            /\ isLoading' = TRUE
    /\ lastOp' = NoOp
    /\ UNCHANGED <<enable3DTiles, destroyed, tilesLoaded, reported, movementTimeout,
                   screenSpaceError, entities, sceneMode, skyBox>>
    /\ UNCHANGED <<searchVars, drawVars, geoVars, measureVars, appVars>>

\* an await of load3DTilesets settles: fulfilled (ok) or rejected; after the
\* last one the tilesets are added to viewer.value.scene, which throws when
\* viewer.value is null, and the two tileLoad listeners are registered
AwaitSettles(ok) ==
    /\ stage \in {Awaits[i] : i \in 1..Len(Awaits)}
    /\ IF ~ok THEN LoadFailed
       ELSE IF AwaitIndex(stage) < Len(Awaits)
            THEN /\ stage' = Awaits[AwaitIndex(stage) + 1]
                 /\ isLoading' = isLoading
       ELSE IF viewer = Null THEN LoadFailed
       ELSE /\ stage' = "listening"
            /\ isLoading' = isLoading
    /\ tilesLoaded' = 0
    /\ lastOp' = NoOp
    /\ UNCHANGED <<enable3DTiles, viewer, destroyed, reported, movementTimeout,
                   screenSpaceError, entities, sceneMode, skyBox>>
    /\ UNCHANGED <<searchVars, drawVars, geoVars, measureVars, appVars>>

\* checkLoadingComplete, called for a tile of tileset t
TileLoad(t) ==
    /\ stage = "listening"
    /\ viewer # Null
    /\ tilesLoaded < MaxTiles
    /\ tilesLoaded' = tilesLoaded + 1
    /\ reported' = reported \cup {t}
    /\ isLoading' = IF tilesLoaded + 1 >= 2 THEN FALSE ELSE isLoading
    /\ lastOp' = NoOp
    /\ UNCHANGED <<enable3DTiles, viewer, destroyed, stage, movementTimeout,
                   screenSpaceError, entities, sceneMode, skyBox>>
    /\ UNCHANGED <<searchVars, drawVars, geoVars, measureVars, appVars>>

\* the listener of scene.camera.changed: clearTimeout, setTimeout(..., 250)
CameraChanged ==
    /\ stage # "setup"
    /\ viewer # Null
    /\ screenSpaceError' = 4
    /\ movementTimeout' = TRUE
    /\ lastOp' = NoOp
    /\ UNCHANGED <<enable3DTiles, viewer, destroyed, stage, isLoading, tilesLoaded,
                   reported, entities, sceneMode, skyBox>>
    /\ UNCHANGED <<searchVars, drawVars, geoVars, measureVars, appVars>>

\* the callback of the 250 ms timer: scene.globe.maximumScreenSpaceError = 2
\* on the scene the listener captured; on a destroyed scene the assignment
\* either writes to the destroyed globe or throws
MovementTimeoutFires ==
    /\ movementTimeout
    /\ movementTimeout' = FALSE
    /\ IF ~destroyed
       THEN /\ screenSpaceError' = 2
            /\ lastOp' = Op("movementTimeout", "acted")
       ELSE \/ /\ screenSpaceError' = 2
               /\ lastOp' = Op("movementTimeout", "wrote to destroyed scene")
            \/ /\ screenSpaceError' = screenSpaceError
               /\ lastOp' = Op("movementTimeout", "threw on destroyed scene")
    /\ UNCHANGED <<enable3DTiles, viewer, destroyed, stage, isLoading, tilesLoaded,
                   reported, entities, sceneMode, skyBox>>
    /\ UNCHANGED <<searchVars, drawVars, geoVars, measureVars, appVars>>

\* onUnmounted: cleanup()
Cleanup ==
    /\ stage # "setup"
    /\ ~destroyed
    /\ IF viewer # Null
       THEN /\ destroyed' = TRUE
            /\ viewer' = Null
            /\ lastOp' = Op("cleanup", "acted")
       ELSE /\ UNCHANGED <<destroyed, viewer>>
            /\ lastOp' = Op("cleanup", "none")
    /\ UNCHANGED <<enable3DTiles, stage, isLoading, tilesLoaded, reported,
                   movementTimeout, screenSpaceError, entities, sceneMode, skyBox>>
    /\ UNCHANGED <<searchVars, drawVars, geoVars, measureVars, appVars>>

\* addPipelines(data), data holding one pipeline
AddPipelines ==
    /\ stage # "setup"
    /\ IF viewer = Null
       THEN /\ entities' = entities
            /\ lastOp' = Op("addPipelines", "none")
       ELSE /\ entities < MaxEntities
            /\ entities' = entities + 1
            /\ lastOp' = Op("addPipelines", "acted")
    /\ UNCHANGED <<enable3DTiles, viewer, destroyed, stage, isLoading, tilesLoaded,
                   reported, movementTimeout, screenSpaceError, sceneMode, skyBox>>
    /\ UNCHANGED <<searchVars, drawVars, geoVars, measureVars, appVars>>

\* switchMapMode(mode) of the Cesium component
CesiumSwitchMapMode(mode) ==
    /\ stage # "setup"
    /\ IF viewer = Null
       THEN /\ sceneMode' = sceneMode
            /\ lastOp' = Op("switchMapMode", "none")
       ELSE /\ sceneMode' = mode
            /\ lastOp' = Op("switchMapMode", "acted")
    /\ UNCHANGED <<enable3DTiles, viewer, destroyed, stage, isLoading, tilesLoaded,
                   reported, movementTimeout, screenSpaceError, entities, skyBox>>
    /\ UNCHANGED <<searchVars, drawVars, geoVars, measureVars, appVars>>

\* changeSkyBox(type)
ChangeSkyBox(type) ==
    /\ stage # "setup"
    /\ IF viewer = Null \/ type = ""
       THEN /\ skyBox' = skyBox
            /\ lastOp' = Op("changeSkyBox", "none")
       ELSE /\ skyBox' = type
            /\ lastOp' = Op("changeSkyBox", "acted")
    /\ UNCHANGED <<enable3DTiles, viewer, destroyed, stage, isLoading, tilesLoaded,
                   reported, movementTimeout, screenSpaceError, entities, sceneMode>>
    /\ UNCHANGED <<searchVars, drawVars, geoVars, measureVars, appVars>>

NextCesium ==
    \/ \E created \in BOOLEAN : CesiumMounted(created)
    \/ \E ok \in BOOLEAN : AwaitSettles(ok)
    \/ \E t \in Tilesets : TileLoad(t)
    \/ CameraChanged
    \/ MovementTimeoutFires
    \/ Cleanup
    \/ AddPipelines
    \/ \E mode \in SceneModes : CesiumSwitchMapMode(mode)
    \/ \E type \in SkyBoxTypes : ChangeSkyBox(type)

-----------------------------------------------------------------------------
(* Specifications. *)

\* no layer is being measured on its own
InitNoShape ==
    /\ shape = [kind |-> "", geom |-> NoGeom]
    /\ measured = NoMeasurement

\* the Cesium component before it is mounted, its props at their defaults
InitCesiumDefault == InitCesium /\ enable3DTiles = TRUE

Init == InitSearch /\ InitDraw /\ InitGeo /\ InitNoShape /\ InitApp /\ InitCesiumDefault

\* the draw tools, under every setting of the two props
Spec == Init /\ [][NextDraw]_vars

\* the props at their defaults
InitDefault == Init /\ enableDraw = TRUE /\ enableMeasure = TRUE

\* the search box
SpecSearch == InitDefault /\ [][NextSearch]_vars

\* the search function and the geocoding service
SpecGeocode == InitDefault /\ [][NextGeocode]_vars

\* the measurement functions
InitShapes ==
    /\ InitSearch /\ InitDraw /\ InitGeo /\ InitMeasure /\ InitApp /\ InitCesiumDefault
    /\ enableDraw = TRUE /\ enableMeasure = TRUE

SpecMeasure == InitShapes /\ [][NextMeasure]_vars

\* the switch between the two maps
SpecApp == InitDefault /\ [][NextApp]_vars

\* the timer of a setTimeout call expires
SpecAppLive == InitDefault /\ [][NextApp]_vars /\ WF_vars(ResetTransition)

\* the Cesium component, under both settings of enable3DTiles
InitCesiumProps ==
    /\ InitSearch /\ InitDraw /\ InitGeo /\ InitNoShape /\ InitApp /\ InitCesium
    /\ enableDraw = TRUE /\ enableMeasure = TRUE

SpecCesium == InitCesiumProps /\ [][NextCesium]_vars

-----------------------------------------------------------------------------
(* What the queries denote, from their parts. *)

NumValue(num) ==
    LET mag == num.int * Pow10(num.flen) + num.fnum
    IN  Rat(IF num.neg THEN -mag ELSE mag, Pow10(num.flen))

\* |num| <= limit
NumWithin(num, limit) == num.int * Pow10(num.flen) + num.fnum <= limit * Pow10(num.flen)

\* degrees + minutes/60 + seconds/3600 of a token, negative for S and W
TokValue(t) ==
    LET scale == Pow10(t.flen)
        mag   == Rat((t.deg * 60 + t.min) * 60 * scale + t.sec * scale + t.fnum,
                     3600 * scale)
    IN  IF t.hemi \in {"S", "W"} THEN Rat(-mag.n, mag.d) ELSE mag

IsCoordinate(c) == c # Null /\ c.lat # Null /\ c.lng # Null

Parsed(kind) == phase = "parsed" /\ query.kind = kind /\ query.junkAt = 0

-----------------------------------------------------------------------------
(* C1: a decimal pair "<lat>,<lng>" with lat in [-90,90] and lng in        *)
(* [-180,180] is parsed to exactly (lat, lng), the first number being the  *)
(* latitude.                                                               *)
C1_DecimalPairExact ==
    (/\ Parsed("decimal")
     /\ query.wsBefore = 0
     /\ NumWithin(query.latNum, 90)
     /\ NumWithin(query.lngNum, 180))
    => coords = [lat |-> NumValue(query.latNum), lng |-> NumValue(query.lngNum)]

C1_Witness ==
    /\ Parsed("decimal")
    /\ query.wsBefore = 0
    /\ query.latNum = [neg |-> TRUE, int |-> 30, fnum |-> 25, flen |-> 2]
    /\ query.lngNum = [neg |-> FALSE, int |-> 120, fnum |-> 5, flen |-> 1]
    /\ coords = [lat |-> Rat(-121, 4), lng |-> Rat(241, 2)]

(* C2: every accepted DMS pair is returned as degrees + minutes/60 +       *)
(* seconds/3600 of each token, negative exactly for S and W.               *)
C2_DmsFormula ==
    (Parsed("dms") /\ coords # Null)
    => coords = [lat |-> TokValue(query.latTok), lng |-> TokValue(query.lngTok)]

(* C3: a DMS pair whose tokens write no seconds, or neither minutes nor    *)
(* seconds, is accepted and the missing parts count as 0.                  *)
C3_MissingPartsAreZero ==
    (/\ Parsed("dms")
     /\ ~query.latTok.hasSec /\ ~query.lngTok.hasSec
     /\ ~query.latTok.minus /\ ~query.lngTok.minus
     /\ query.latTok.hemi \in {"N", "S"}
     /\ query.lngTok.hemi \in {"E", "W"})
    => coords = [lat |-> TokValue(query.latTok), lng |-> TokValue(query.lngTok)]

(* C4: a text of neither grammar (a text that is no coordinate, or a       *)
(* coordinate with a foreign character in it) is answered with null.       *)
C4_NotRecognized ==
    (phase = "parsed" /\ (query.kind = "text" \/ query.junkAt # 0))
    => coords = Null

C4_Witness ==
    /\ phase = "parsed"
    /\ query.kind = "dms"
    /\ query.junkAt = Len(FormatBase(query)) + 1
    /\ parseCoordinates(FormatBase(query)) # Null
    /\ coords = Null

(* C5: a DMS pair with a token that has no hemisphere letter is answered   *)
(* with null, never with a coordinate of an assumed hemisphere.            *)
C5_HemisphereRequired ==
    (Parsed("dms") /\ (query.latTok.hemi = "" \/ query.lngTok.hemi = ""))
    => coords = Null

C5_Witness ==
    /\ Parsed("dms")
    /\ query.latTok.hemi = "" /\ query.lngTok.hemi = "E"
    /\ query.latTok.hasMin /\ query.latTok.apos /\ query.latTok.hasSec
    /\ query.latTok.quot /\ query.latTok.deg = 30
    /\ coords = Null

-----------------------------------------------------------------------------
(* The draw tools. *)

Measurable == {"polyline", "polygon", "rectangle", "circle"}

HasMeasurement(layer) == popup[layer] # Null

\* the kinds the two props switch off: enableMeasure stands for the line and
\* polygon tools, enableDraw for the circle, marker and rectangle tools
DisabledKind(kind) ==
    \/ kind \in {"polyline", "polygon"} /\ ~enableMeasure
    \/ kind \in {"circle", "marker", "rectangle"} /\ ~enableDraw

(* C6: a created event handled with measurement enabled puts the shape in  *)
(* the shape set and, in the same step, binds a Measurement to it:         *)
(* Distance for a polyline, Area for a polygon, a rectangle or a circle.   *)
C6_MeasuredWhenCreated ==
    (lastEvent.type = "created" /\ enableMeasure)
    => /\ lastEvent.layer \in DrawnLayers
       /\ lastEvent.kind = "polyline"
            => /\ HasMeasurement(lastEvent.layer)
               /\ popup[lastEvent.layer].label = "Distance"
       /\ lastEvent.kind \in {"polygon", "rectangle", "circle"}
            => /\ HasMeasurement(lastEvent.layer)
               /\ popup[lastEvent.layer].label = "Area"

C6_Witness ==
    /\ lastEvent.type = "created" /\ enableMeasure
    /\ lastEvent.kind = "rectangle"
    /\ lastEvent.layer \in DrawnLayers
    /\ latlngs[lastEvent.layer].ne = <<1, 1>>
    /\ HasMeasurement(lastEvent.layer)
    /\ popup[lastEvent.layer].label = "Area"
    /\ popup[lastEvent.layer].value > 0

(* C7: a shape of the shape set has a Measurement exactly when measurement *)
(* was asked for: with the measurement flag off no shape of any kind has   *)
(* one, with it on every shape that can be measured has one.               *)
C7_MeasurementIffRequested ==
    \A layer \in DrawnLayers :
        /\ ~enableMeasure => ~HasMeasurement(layer)
        /\ enableMeasure /\ layerType[layer] \in Measurable => HasMeasurement(layer)

(* C8: every Measurement belongs to a shape of the shape set, and once the *)
(* removal of a shape is handled neither the shape nor a Measurement or    *)
(* open popup of it is left.                                               *)
C8_NoDanglingMeasurement ==
    /\ \A layer \in Ids : HasMeasurement(layer) => layer \in DrawnLayers
    /\ lastEvent.type = "removed"
         => /\ lastEvent.layer \notin DrawnLayers
            /\ lastEvent.layer \notin mapLayers
            /\ ~HasMeasurement(lastEvent.layer)
            /\ mapPopup # lastEvent.layer

C8_Witness ==
    /\ lastEvent.type = "removed"
    /\ lastEvent.kind = "rectangle"
    /\ enableMeasure
    /\ lastEvent.layer \notin DrawnLayers
    /\ ~HasMeasurement(lastEvent.layer)
    /\ \E other \in DrawnLayers : HasMeasurement(other)

(* C9: the Measurement of a shape of the shape set is that of the shape's  *)
(* current geometry, edits included.                                       *)
C9_MeasurementIsCurrent ==
    \A layer \in DrawnLayers :
        HasMeasurement(layer)
        => popup[layer] = measurementText(layerType[layer], latlngs[layer])

-----------------------------------------------------------------------------
(* The search function. *)

\* the coordinate a well-formed query denotes
ExpectedCoordinate(q) ==
    IF q.kind = "decimal"
    THEN [lat |-> NumValue(q.latNum), lng |-> NumValue(q.lngNum)]
    ELSE [lat |-> TokValue(q.latTok), lng |-> TokValue(q.lngTok)]

NumberChars == Digit \cup {"-", "."}
IsNumberText(s) == s # <<>> /\ \A i \in 1..Len(s) : s[i] \in NumberChars

\* the label is the prefix and the two numbers of c, written out
LabelOf(name, c) ==
    /\ name.t = "string"
    /\ \E k \in 5..Len(name.chars) :
          /\ SubSeq(name.chars, 1, 4) = <<"zuo", "biao", ":", " ">>
          /\ SubSeq(name.chars, k, k + 1) = <<",", " ">>
          /\ IsNumberText(SubSeq(name.chars, 5, k - 1))
          /\ IsNumberText(SubSeq(name.chars, k + 2, Len(name.chars)))
          /\ parseFloat(SubSeq(name.chars, 5, k - 1)) = c.lat
          /\ parseFloat(SubSeq(name.chars, k + 2, Len(name.chars))) = c.lng

RequestsOf(call) == {i \in 1..Len(requests) : requests[i].call = call}

(* C11: a call of the search function with a text parseCoordinates         *)
(* recognizes returns exactly one result, located at the coordinate the    *)
(* text denotes and labelled with that coordinate, and sends no request to *)
(* the geocoding service.                                                  *)
C11_CoordinateAnsweredLocally ==
    \A call \in CallIds :
        (calls[call].stage # "none" /\ calls[call].coords # Null)
        => /\ calls[call].stage = "fulfilled"
           /\ Len(calls[call].value) = 1
           /\ calls[call].value[1].location = ExpectedCoordinate(calls[call].q)
           /\ LabelOf(calls[call].value[1].name, ExpectedCoordinate(calls[call].q))
           /\ RequestsOf(call) = {}

C11_Witness ==
    /\ issued = 2
    /\ calls[1].stage = "fetch"
    /\ Len(requests) = 1
    /\ calls[2].stage = "fulfilled"
    /\ calls[2].q.kind = "decimal"
    /\ calls[2].value[1].location = [lat |-> Rat(-121, 4), lng |-> Rat(241, 2)]
    /\ calls[2].value[1].name =
          Str(<<"zuo", "biao", ":", " ", "-", "3", "0", ".", "2", "5", ",", " ",
                "1", "2", "0", ".", "5">>)
    /\ results.call = 2

(* C12: when the text is no coordinate and the geocoding service answers   *)
(* with a sequence of records, the search function returns one result per  *)
(* record, in the order of the records: the i-th result has the name and   *)
(* the location of the i-th record.                                        *)
C12_RecordsMappedInOrder ==
    \A call \in CallIds :
        (calls[call].stage = "fulfilled" /\ calls[call].answer.kind = "records")
        => LET places == calls[call].answer.places
               value  == calls[call].value
           IN  /\ Len(value) = Len(places)
               /\ \A i \in 1..Len(places) :
                     value[i] = [name     |-> Str(places[i].name),
                                 location |-> [lat |-> NumValue(places[i].latNum),
                                               lng |-> NumValue(places[i].lngNum)]]

C12_Witness ==
    \E call \in CallIds :
        /\ calls[call].stage = "fulfilled"
        /\ calls[call].answer.kind = "records"
        /\ calls[call].coords = Null
        /\ Len(calls[call].value) = 2
        /\ calls[call].value[1].name = Str(<<"H", "a", "n", "g", "z", "h", "o", "u">>)
        /\ calls[call].value[2].name = Str(<<"S", "y", "d", "n", "e", "y">>)
        /\ calls[call].value[2].location = [lat |-> Rat(-67, 2), lng |-> Rat(151, 1)]

\* the answers that are failures of the geocoding call: no response, a body
\* that is no JSON, a decoded body that is no sequence of records
FailureKinds == {"networkError", "invalidJson", "object", "null", "nullItem", "numbers"}

(* C13: after every failure of the geocoding call (network error, body     *)
(* that is no JSON, decoded body that is no sequence of records) the       *)
(* search function returns the empty sequence, and no call ever ends with  *)
(* an error handed to the caller.                                          *)
C13_FailuresGiveEmpty ==
    \A call \in CallIds :
        /\ calls[call].stage # "rejected"
        /\ (calls[call].stage = "fulfilled" /\ calls[call].answer.kind \in FailureKinds)
           => calls[call].value = <<>>

(* C14: last-query-wins: when query A is issued before query B, both go to *)
(* the geocoding service, and B's results have been returned, the results  *)
(* the control holds are not those of A.                                   *)
C14_LastQueryWins ==
    \A a \in CallIds :
        (/\ a < issued
         /\ calls[a].answer.kind = "records"
         /\ calls[issued].answer.kind = "records"
         /\ calls[issued].stage = "fulfilled")
        => results.call # a

-----------------------------------------------------------------------------
(* The measurement functions. *)

\* the sum of f over a set of indices
RECURSIVE SumOver(_, _)
SumOver(S, f) ==
    IF S = {} THEN 0
    ELSE LET i == CHOOSE x \in S : TRUE IN f[i] + SumOver(S \ {i}, f)

\* the distance of each point from the one before it
StepLengths(points) ==
    [i \in 2..Len(points) |-> distanceTo(points[i - 1], points[i])]

(* C15: for a polyline of n >= 2 points calculateDistance returns the sum  *)
(* of the distances from each point to the next one: each pair of          *)
(* neighbours once, and no other pair, the last point back to the first    *)
(* included.                                                               *)
C15_DistanceIsConsecutiveSum ==
    (measured.of = "distance" /\ Len(shape.geom.points) >= 2)
    => /\ ~measured.threw
       /\ measured.value = SumOver(2..Len(shape.geom.points), StepLengths(shape.geom.points))

C15_Witness ==
    /\ measured.of = "distance"
    /\ shape.geom.points = <<<<0, 0>>, <<0, 2>>, <<2, 2>>>>
    /\ measured.value = 4000

(* C16: measuring a polyline of fewer than 2 points or a polygon of fewer  *)
(* than 3 points fails with InvalidShape and returns no number.            *)
C16_DegenerateShapeFails ==
    /\ (measured.of = "distance" /\ Len(shape.geom.points) < 2) => measured.threw
    /\ (measured.of = "area" /\ shape.kind = "polygon" /\ Len(shape.geom.points) < 3)
       => measured.threw

\* the corners of a rectangle in the order of the claim
PerimeterRing(ne, sw) == <<ne, <<ne[1], sw[2]>>, sw, <<sw[1], ne[2]>>>>

\* neighbours on the ring, the last and the first included, lie on one side
\* of the rectangle: they share the latitude or the longitude
InPerimeterOrder(ring) ==
    \A i \in 1..Len(ring) :
        LET p == ring[i]
            r == ring[(i % Len(ring)) + 1]
        IN  p[1] = r[1] \/ p[2] = r[2]

(* C17: the area of a rectangle with corners northEast and southWest is    *)
(* what the polygon-area function returns for the ring northEast,          *)
(* (northEast.lat, southWest.lng), southWest, (southWest.lat,              *)
(* northEast.lng), and the ring handed to the area algorithm goes round    *)
(* the perimeter.                                                          *)
C17_RectangleIsPolygonOfCorners ==
    (measured.of = "area" /\ shape.kind = "rectangle")
    => LET ring == PerimeterRing(shape.geom.ne, shape.geom.sw)
       IN  /\ RectangleRing(shape.geom) = ring
           /\ InPerimeterOrder(RectangleRing(shape.geom))
           /\ measured.value = calculatePolygonArea(Path(ring))

C17_Witness ==
    /\ measured.of = "area"
    /\ shape.kind = "rectangle"
    /\ shape.geom.ne = <<2, 1>> /\ shape.geom.sw = <<0, 0>>
    /\ measured.value = 2000

-----------------------------------------------------------------------------
(* The life of a shape. *)

\* the places of a step in the steps of a removal
Places_(steps, name) == {i \in 1..Len(steps) : steps[i] = name}

\* every step named a comes before every step named b, and both were taken
Before(steps, a, b) ==
    /\ Places_(steps, a) # {}
    /\ Places_(steps, b) # {}
    /\ \A i \in Places_(steps, a) : \A j \in Places_(steps, b) : i < j

(* C18: when a shape with an open popup is removed, the popup is closed    *)
(* and detached from the shape before the shape is taken off the map, and  *)
(* when the removal is over no popup refers to the shape.                  *)
C18_PopupDetachedBeforeRemoval ==
    (lastEvent.type = "removed" /\ lastEvent.open)
    => /\ ~HasMeasurement(lastEvent.layer)
       /\ mapPopup # lastEvent.layer
       /\ lastEvent.layer \notin DrawnLayers \cup mapLayers
       /\ Before(lastEvent.steps, "popup.close", "map.removeLayer")
       /\ Before(lastEvent.steps, "popup.detach", "map.removeLayer")

\* the state of a shape: Editing is passed through inside an edit that is
\* completed, so a completed edit leaves the shape Committed
ShapeState(l) ==
    IF l \in DrawnLayers THEN "Committed"
    ELSE IF l < nextId THEN "Removed"
    ELSE IF l = nextId /\ draft # NoDraft THEN "Drawing"
    ELSE "None"

ShapeSteps ==
    {<<"None", "Drawing">>, <<"Drawing", "Committed">>, <<"Committed", "Committed">>,
     <<"Committed", "Removed">>, <<"None", "None">>, <<"Drawing", "Drawing">>,
     <<"Removed", "Removed">>}

(* C19: the state of a shape changes only from Drawing to Committed, from  *)
(* Committed through Editing back to Committed, and from Committed to      *)
(* Removed; a shape in Drawing is not in the shape set and has no          *)
(* Measurement; a removed shape stays removed and never has a Measurement  *)
(* again.                                                                  *)
C19_ShapeStateMachine ==
    /\ [][\A l \in Ids : <<ShapeState(l), ShapeState(l)'>> \in ShapeSteps]_vars
    /\ [](\A l \in Ids : ShapeState(l) = "Drawing"
                            => l \notin DrawnLayers /\ ~HasMeasurement(l))
    /\ [][\A l \in removed : l \notin DrawnLayers' /\ popup'[l] = Null]_vars

\* what the handlers keep of one shape
LayerState(l) ==
    [inSet |-> l \in DrawnLayers, onMap |-> l \in mapLayers, type |-> layerType[l],
     geometry |-> latlngs[l], measurement |-> popup[l], listening |-> listening[l]]

\* the events that are about one shape
ShapeEvents == {"created", "edited", "removed"}

(* C20: the events of a shape are handled in the order they come: when an  *)
(* editCompleted of X is followed by a removeRequested of X, X is removed  *)
(* and has no Measurement; once the removal of X has been handled no event *)
(* of X is handled and the state of X does not change; and an event of one *)
(* shape leaves the state of every other shape as it was.                  *)
C20_PerShapeOrder ==
    /\ [][(/\ lastEvent.type = "edited" /\ lastEvent'.type = "removed"
           /\ lastEvent'.layer = lastEvent.layer)
          => /\ lastEvent.layer \notin DrawnLayers'
             /\ popup'[lastEvent.layer] = Null]_vars
    /\ [][\A l \in removed :
             /\ ~(lastEvent'.type \in ShapeEvents /\ lastEvent'.layer = l)
             /\ LayerState(l)' = LayerState(l)]_vars
    /\ [][\A l \in Ids :
             (lastEvent'.type \in ShapeEvents /\ lastEvent'.layer # l)
             => LayerState(l)' = LayerState(l)]_vars

-----------------------------------------------------------------------------
(* Range, separator and sign of the parser's results. *)

\* |r| <= limit
RatWithin(r, limit) == Abs(r.n) <= limit * r.d

(* C21: every coordinate parseCoordinates returns, from either grammar,    *)
(* has its latitude in [-90,90] and its longitude in [-180,180]; a text    *)
(* that denotes a value out of range yields no coordinate.                 *)
C21_CoordinateInRange ==
    (phase = "parsed" /\ IsCoordinate(coords))
    => RatWithin(coords.lat, 90) /\ RatWithin(coords.lng, 180)

(* C22: in a decimal pair blanks are tolerated on both sides of the comma: *)
(* "a,b", "a, b", "a ,b" and "a , b" are all accepted and all yield        *)
(* (lat a, lng b).                                                         *)
C22_BlanksAroundComma ==
    Parsed("decimal")
    => coords = [lat |-> NumValue(query.latNum), lng |-> NumValue(query.lngNum)]

(* C25: no accepted DMS pair has a token with a leading minus sign: the    *)
(* sign of each component is that of its hemisphere letter and agrees with *)
(* every sign character the grammar accepted.                              *)
C25_NoIgnoredMinus ==
    (Parsed("dms") /\ coords # Null)
    => ~query.latTok.minus /\ ~query.lngTok.minus

-----------------------------------------------------------------------------
(* The tool configuration and the popups during a zoom. *)

(* C23: the five shape kinds can be enabled and disabled independently:    *)
(* for every subset of the kinds there is a tool configuration under which *)
(* exactly the kinds of the subset can be drawn (stated of the component   *)
(* once it has configured its tools).                                      *)
C23_KindsIndependent ==
    mounted => \A S \in SUBSET Kinds : \E p \in Props : ToolKinds(p) = S

(* C24: the zoomstart handler closes the open popup of a drawn shape and   *)
(* the zoomend handler opens it again: a popup that was open before the    *)
(* zoom is open after it.                                                  *)
C24_PopupReopenedAfterZoom ==
    /\ [][lastEvent'.type = "zoomstart"
             => (mapPopup' \notin DrawnLayers \/ popup[mapPopup'] = Null)]_vars
    /\ [][(lastEvent.type = "zoomstart" /\ lastEvent.open /\ lastEvent'.type = "zoomend")
             => mapPopup' = lastEvent.layer]_vars

-----------------------------------------------------------------------------
(* The switch between the two maps. *)

(* C26: after any sequence of switchMapMode calls and timer expirations    *)
(* exactly one of leafletVisible and cesiumVisible is true, and            *)
(* leafletVisible is true exactly when mapMode is "2D".                    *)
C26_OneMapVisible ==
    /\ leafletVisible # cesiumVisible
    /\ leafletVisible <=> (mapMode = "2D")

C26_Witness ==
    /\ lastSwitch.op = "timeout"
    /\ switchCalls >= 2
    /\ mapMode = "3D"
    /\ cesiumVisible /\ ~leafletVisible
    /\ ~isTransitioning

(* C27: a call of switchMapMode made while isTransitioning is true, or     *)
(* with the current mode, changes nothing and starts no timer; at most one *)
(* reset timer is pending at any time; and isTransitioning becomes false   *)
(* again after every accepted switch.                                      *)
C27_RejectedSwitchChangesNothing ==
    /\ [][(/\ lastSwitch'.op = "switchMapMode"
           /\ isTransitioning \/ lastSwitch'.mode = mapMode)
          => UNCHANGED <<mapMode, leafletVisible, cesiumVisible, isTransitioning,
                         resetTimers>>]_vars
    /\ [](resetTimers <= 1)
    /\ [](isTransitioning => resetTimers = 1)
    /\ (isTransitioning ~> ~isTransitioning)

C27_Witness ==
    /\ lastSwitch = [op |-> "switchMapMode", mode |-> "2D", accepted |-> FALSE]
    /\ mapMode = "3D"
    /\ isTransitioning
    /\ resetTimers = 1

-----------------------------------------------------------------------------
(* The Cesium component. *)

(* C28: in every execution of the mount sequence isLoading becomes false:  *)
(* it is false once load3DTilesets has returned early or has caught an     *)
(* error, and with both tilesets added it becomes false only after each of *)
(* the two tilesets has reported a loaded tile.                            *)
C28_LoadingEnds ==
    /\ stage \in {"returned", "caught"} => ~isLoading
    /\ (stage = "listening" /\ ~isLoading) => reported = Tilesets

(* C29: once cleanup has destroyed the viewer, the 250 ms timer of the     *)
(* camera listener does nothing when it fires (or was cancelled), and      *)
(* addPipelines, switchMapMode and changeSkyBox are no-ops.                *)
C29_NothingActsAfterCleanup ==
    /\ [][(destroyed /\ lastOp'.op = "movementTimeout")
          => lastOp'.effect = "none"]_vars
    /\ [][(destroyed /\ lastOp'.op \in ExposedOps)
          => /\ lastOp'.effect = "none"
             /\ UNCHANGED <<entities, sceneMode, skyBox, screenSpaceError>>]_vars

-----------------------------------------------------------------------------
(* The draw tools with both flags off. *)

(* C30: with the draw flag and the measure flag both false the draw tools  *)
(* are never initialised: the shape set does not exist, no created,        *)
(* removal or zoom handler runs, and no shape and no measurement exists.   *)
C30_NoToolsWhenBothOff ==
    (~enableDraw /\ ~enableMeasure)
    => /\ drawnItems = <<>>
       /\ mapLayers = {}
       /\ draft = NoDraft
       /\ \A layer \in Ids : layerType[layer] = "" /\ popup[layer] = Null
       /\ lastEvent.type \in {"none", "mounted", "ShapeKindDisabled"}

C30_Witness ==
    /\ ~enableDraw /\ ~enableMeasure
    /\ mounted
    /\ lastEvent = [NoEvent EXCEPT !.type = "ShapeKindDisabled", !.kind = "marker"]
    /\ drawnItems = <<>>

====
